---- MODULE Spec2Model ----
(***************************************************************************)
(* ClaudeMetrics backend (server.js): the SQLite ledger (requests and      *)
(* daily_summary tables), the manual-entry, log-read and bulk-delete       *)
(* routes, and the /api/proxy relay in buffered and in streamed mode.      *)
(*                                                                         *)
(* Conventions of the model                                                *)
(*  - cost_usd is a JavaScript double; the model keeps it exactly, as an   *)
(*    integer number of 1e-8 USD (prices are listed in cents per million   *)
(*    tokens, so tokens * price is the cost in 1e-8 USD).                  *)
(*  - created_at and the daily_summary key are kept at day granularity;    *)
(*    the two clock reads of one logRequest call (line 133 and the         *)
(*    datetime('now') default of line 65) are taken at the same instant.   *)
(*  - a model identifier is the sequence of its dash-separated segments.   *)
(*  - a JavaScript value that may be undefined, null or NaN is a record    *)
(*    [t, n]; only t = "num" carries a number.                             *)
(*                                                                         *)
(* Specifications                                                          *)
(*  - SpecLedger: the record operation, manual entry, log read, bulk       *)
(*    delete (done, or refused as a whole), midnight and restart.          *)
(*  - SpecClear: manual entry, log read, midnight, restart and the bulk    *)
(*    delete with each of its two statements able to fail.                 *)
(*  - SpecPayload: manual entries with arbitrary counts.                    *)
(*  - SpecLimit: the rows query of the log read over limits and table sizes.*)
(*  - SpecExport: exports among manual entries and bulk deletes.           *)
(*  - SpecCost: calcCost over a set of model names and token counts.       *)
(*  - SpecRelay: /api/proxy, one call after the other, both modes.         *)
(*  - SpecStream: one streamed call with the full set of chunks.           *)
(*  - SpecCalls: /api/proxy with several calls in flight.                  *)
(*  - SpecLive: calls of both modes in flight, upstream's steps weakly     *)
(*    fair.                                                                *)
(***************************************************************************)
EXTENDS Integers, Sequences, FiniteSets, TLC

VARIABLES
    requests,     \* rows of table requests, in insertion order
    daily,        \* table daily_summary: date -> row
    today,        \* the current calendar day (UTC)
    last,         \* the outcome of the latest call of a synchronous route or function
    afterDelete,  \* history: the latest ledger write was a bulk delete of a non-empty ledger
    crashed,      \* the node process has died
    apiKey,       \* process.env.ANTHROPIC_API_KEY, "" when not set
    calls         \* the /api/proxy calls, by call number

vars == <<requests, daily, today, last, afterDelete, crashed, apiKey, calls>>

----------------------------------------------------------------------------
(* Bounds *)

MaxDay == 2
MaxRows == 2
MaxIds == 2
MaxAggRequests == 2
MaxCalls == 2
MaxChunks == 3

Days == 1..MaxDay
ReqIds == 1..MaxIds
CallIds == 1..MaxCalls

----------------------------------------------------------------------------
(* JavaScript values *)

Num(n) == [t |-> "num", n |-> n]
Undefined == [t |-> "undefined", n |-> 0]
Null == [t |-> "null", n |-> 0]
NaN == [t |-> "NaN", n |-> 0]
Str == [t |-> "string", n |-> 0]

\* v || 0 for a value that is a number, undefined, null or NaN
OrZero(v) == IF v.t = "num" THEN v.n ELSE 0

\* v || d : every falsy value, the number 0 included, yields d
OrElse(v, d) == IF v.t = "num" /\ v.n # 0 THEN v.n ELSE d

\* parseInt of a request-body field: a number keeps its (integer) value,
\* an absent field or a non-numeric string is NaN
ParseInt(v) == IF v.t = "num" THEN v ELSE NaN

----------------------------------------------------------------------------
(* Pricing table *)

IsPrefix(p, s) == Len(p) <= Len(s) /\ SubSeq(s, 1, Len(p)) = p

\* String.prototype.startsWith
StartsWith(s, p) == IsPrefix(p, s)

Opus45 == <<"claude", "opus", "4", "5">>
Sonnet45 == <<"claude", "sonnet", "4", "5">>
Haiku45 == <<"claude", "haiku", "4", "5">>
Opus3 == <<"claude", "3", "opus", "20240229">>
Sonnet35 == <<"claude", "3", "5", "sonnet", "20241022">>
Haiku3 == <<"claude", "3", "haiku", "20240307">>
Haiku35 == <<"claude", "3", "5", "haiku", "20241022">>

\* in, out: cents per million tokens, in the order of Object.keys(PRICES)
PRICES ==
    << [key |-> Opus45,   in |-> 1500, out |-> 7500],
       [key |-> Sonnet45, in |-> 300,  out |-> 1500],
       [key |-> Haiku45,  in |-> 80,   out |-> 400],
       [key |-> Opus3,    in |-> 1500, out |-> 7500],
       [key |-> Sonnet35, in |-> 300,  out |-> 1500],
       [key |-> Haiku3,   in |-> 25,   out |-> 125],
       [key |-> Haiku35,  in |-> 80,   out |-> 400] >>

PriceOf(key) == PRICES[CHOOSE i \in 1..Len(PRICES) : PRICES[i].key = key]

\* variant: a model that matches no key is priced as the first key of the table
FindKey_FirstKeyDefault(model) ==
    LET hits == {i \in 1..Len(PRICES) :
                    StartsWith(model, PRICES[i].key) \/ StartsWith(PRICES[i].key, model)}
    IN IF hits = {} THEN PRICES[1].key
       ELSE PRICES[CHOOSE i \in hits : \A j \in hits : i <= j].key

\* Object.keys(PRICES).find(k => model.startsWith(k) || k.startsWith(model)) || default
FindKey(model) ==
    LET hits == {i \in 1..Len(PRICES) :
                    StartsWith(model, PRICES[i].key) \/ StartsWith(PRICES[i].key, model)}
    IN IF hits = {} THEN Sonnet45
       ELSE PRICES[CHOOSE i \in hits : \A j \in hits : i <= j].key

calcCost(model, inputTok, outputTok) ==
    LET p == PriceOf(FindKey(model))
    IN inputTok * p.in + outputTok * p.out

----------------------------------------------------------------------------
(* Ledger *)

HasRequestId(reqs, id) == \E i \in 1..Len(reqs) : reqs[i].request_id = id

\* the row stored for a record: created_at defaults to datetime('now')
Row(record, now) ==
    [request_id |-> record.request_id,
     model |-> record.model,
     input_tokens |-> record.input_tokens,
     output_tokens |-> record.output_tokens,
     cache_read_tokens |-> record.cache_read_tokens,
     cache_write_tokens |-> record.cache_write_tokens,
     cost_usd |-> record.cost_usd,
     source |-> record.source,
     created_at |-> now]

\* variant: a plain INSERT on a request_id column without the UNIQUE constraint
insertRequest_NoIgnore(reqs, record, now) == Append(reqs, Row(record, now))

\* INSERT OR IGNORE INTO requests: a row whose request_id is present is ignored
insertRequest(reqs, record, now) ==
    IF HasRequestId(reqs, record.request_id)
    THEN reqs
    ELSE Append(reqs, Row(record, now))

\* INSERT INTO daily_summary ... ON CONFLICT(date) DO UPDATE
updateDaily(d, p) ==
    IF p.date \in DOMAIN d
    THEN [d EXCEPT ![p.date] =
            [total_cost |-> @.total_cost + p.cost,
             total_requests |-> @.total_requests + 1,
             total_input_tokens |-> @.total_input_tokens + p.input,
             total_output_tokens |-> @.total_output_tokens + p.output]]
    ELSE [x \in DOMAIN d \cup {p.date} |->
            IF x = p.date
            THEN [total_cost |-> p.cost,
                  total_requests |-> 1,
                  total_input_tokens |-> p.input,
                  total_output_tokens |-> p.output]
            ELSE d[x]]

\* variant: the two statements run without a transaction around them
Rollback_None(before, partial) == partial

\* a statement that throws inside db.transaction rolls the transaction back
Rollback(before, partial) == before

TxnFaults == {"none", "insert", "update", "crash"}

\* the record built by logRequest from its argument; request_id 0 is an absent
\* request_id, uuid stands for crypto.randomUUID()
MakeRecord(data, uuid) ==
    [request_id |-> IF data.request_id # 0 THEN data.request_id ELSE uuid,
     model |-> data.model,
     input_tokens |-> OrZero(data.input_tokens),
     output_tokens |-> OrZero(data.output_tokens),
     cache_read_tokens |-> OrZero(data.cache_read_tokens),
     cache_write_tokens |-> OrZero(data.cache_write_tokens),
     cost_usd |-> calcCost(data.model, OrZero(data.input_tokens), OrZero(data.output_tokens)),
     source |-> IF data.source = "" THEN "proxy" ELSE data.source]

\* logRequest: the database after the call, and whether the call threw
logRequest(db, data, uuid, now, fault) ==
    LET record == MakeRecord(data, uuid)
        s1 == [requests |-> insertRequest(db.requests, record, now), daily |-> db.daily]
        s2 == [requests |-> s1.requests,
               daily |-> updateDaily(s1.daily, [date |-> now,
                                                cost |-> record.cost_usd,
                                                input |-> record.input_tokens,
                                                output |-> record.output_tokens])]
    IN CASE fault = "none"   -> [db |-> s2, threw |-> FALSE, record |-> record]
         [] fault = "insert" -> [db |-> Rollback(db, db), threw |-> TRUE, record |-> record]
         [] OTHER            -> [db |-> Rollback(db, s1), threw |-> TRUE, record |-> record]

DB == [requests |-> requests, daily |-> daily]

\* the argument object of a logRequest call
Data(id, model, inTok, outTok, cr, cw, source) ==
    [request_id |-> id, model |-> model, input_tokens |-> inTok, output_tokens |-> outTok,
     cache_read_tokens |-> cr, cache_write_tokens |-> cw, source |-> source]

\* the model keeps at most MaxRows rows and MaxAggRequests calls per day
WithinBounds(db) ==
    /\ Len(db.requests) <= MaxRows
    /\ \A d \in DOMAIN db.daily : db.daily[d].total_requests <= MaxAggRequests

\* crypto.randomUUID(): an identifier no stored row and no call in flight carries
InUse == {requests[i].request_id : i \in 1..Len(requests)}
            \cup {calls[c].requestId : c \in CallIds}
HasFresh == ReqIds \ InUse # {}
FreshId == CHOOSE i \in ReqIds \ InUse : \A j \in ReqIds \ InUse : i <= j

NoSummary == [total_cost |-> Undefined, total_input |-> Undefined,
              total_output |-> Undefined, total_requests |-> Undefined]

\* the outcome of a call of a synchronous route: status 0 is no response at all
\* (the process died); dup and fault record the call's circumstances: its
\* request_id was already stored, the storage fault it met
Response(op, status, dup, fault, summary, hasToday) ==
    [op |-> op, status |-> status, dup |-> dup, fault |-> fault,
     summary |-> summary, hasToday |-> hasToday]

NoResponse ==
    [op |-> "none", status |-> 0, dup |-> FALSE, fault |-> "none",
     summary |-> NoSummary, hasToday |-> FALSE]

\* the status a route answers with around a logRequest call
StatusOf(threw, fault) == IF fault = "crash" THEN 0 ELSE IF threw THEN 500 ELSE 200

\* history variable: a logRequest transaction that committed ends the "just cleared" period
ClearedAfterLog(threw) == IF threw THEN afterDelete ELSE FALSE

----------------------------------------------------------------------------
(* Inputs *)

Unknown == <<"gpt", "4">>

\* (model, input_tokens, output_tokens) of the record calls
RecordInputs == { <<Unknown, Undefined, Num(50)>> }

\* (model, input_tokens, output_tokens) of the manual-entry bodies; <<>> is no model
ManualInputs == { <<Sonnet45, Num(100), Str>>, <<<<>>, Num(100), Num(100)>> }

----------------------------------------------------------------------------
(* Ledger operations *)

\* a call of logRequest by a caller that supplies the request_id (line 122 takes
\* data.request_id when it is given; the routes of server.js let it default)
Record(id, model, inTok, outTok, fault) ==
    LET r == logRequest(DB, Data(id, model, inTok, outTok, Undefined, Undefined, ""),
                        0, today, fault)
    IN /\ ~crashed
       /\ WithinBounds(r.db)
       /\ requests' = r.db.requests
       /\ daily' = r.db.daily
       /\ crashed' = (fault = "crash")
       /\ last' = Response("record", StatusOf(r.threw, fault),
                           HasRequestId(requests, id), fault, NoSummary, FALSE)
       /\ afterDelete' = ClearedAfterLog(r.threw)
       /\ UNCHANGED <<today, apiKey, calls>>

\* POST /api/manual
Manual(model, inRaw, outRaw, fault) ==
    /\ ~crashed
    /\ IF model = <<>>
       THEN /\ fault = "none"
            /\ last' = Response("manual", 400, FALSE, "none", NoSummary, FALSE)
            /\ UNCHANGED <<requests, daily, today, afterDelete, crashed, apiKey, calls>>
       ELSE /\ HasFresh
            /\ LET r == logRequest(DB, Data(0, model, Num(OrZero(ParseInt(inRaw))),
                                            Num(OrZero(ParseInt(outRaw))),
                                            Undefined, Undefined, "manual"),
                                   FreshId, today, fault)
               IN /\ WithinBounds(r.db)
                  /\ requests' = r.db.requests
                  /\ daily' = r.db.daily
                  /\ crashed' = (fault = "crash")
                  /\ last' = Response("manual", StatusOf(r.threw, fault),
                                      HasRequestId(requests, r.record.request_id), fault,
                                      NoSummary, FALSE)
                  /\ afterDelete' = ClearedAfterLog(r.threw)
            /\ UNCHANGED <<today, apiKey, calls>>

RECURSIVE SumOf(_, _)
SumOf(reqs, col) ==
    IF reqs = <<>> THEN 0
    ELSE (CASE col = "cost_usd" -> Head(reqs).cost_usd
            [] col = "input_tokens" -> Head(reqs).input_tokens
            [] OTHER -> Head(reqs).output_tokens) + SumOf(Tail(reqs), col)

\* SQL SUM(col): NULL over no rows
SqlSum(reqs, col) == IF reqs = <<>> THEN Null ELSE Num(SumOf(reqs, col))

\* SQL COALESCE(v, 0)
Coalesce(v) == IF v.t = "null" THEN Num(0) ELSE v

\* the all-time rollup of GET /api/logs
Summary(reqs) ==
    [total_cost |-> Coalesce(SqlSum(reqs, "cost_usd")),
     total_input |-> Coalesce(SqlSum(reqs, "input_tokens")),
     total_output |-> Coalesce(SqlSum(reqs, "output_tokens")),
     total_requests |-> Num(Len(reqs))]

\* GET /api/logs (the rows of the day window are not part of the model)
GetLogs(fault) ==
    /\ ~crashed
    /\ last' = IF fault
               THEN Response("logs", 500, FALSE, "read", NoSummary, FALSE)
               ELSE Response("logs", 200, FALSE, "none", Summary(requests),
                             today \in DOMAIN daily)
    /\ UNCHANGED <<requests, daily, today, afterDelete, crashed, apiKey, calls>>

\* values of the limit query parameter: absent, not a number, and numbers
LimitParams ==
    { Undefined, Str, Num(0), Num(-1), Num(1), Num(100), Num(499), Num(500), Num(2000),
      Num(2001), Num(5000) }

\* numbers of stored rows inside the day window
WindowSizes == {0, 1, 2, 499, 500, 501, 1999, 2000, 2001, 3000}

Min(a, b) == IF a <= b THEN a ELSE b

\* Math.min(parseInt(req.query.limit) || 500, 2000)
LimitOf(raw) == Min(OrElse(ParseInt(raw), 500), 2000)

\* the rows a SELECT ... LIMIT ? returns out of n matching rows: SQLite puts no
\* upper bound on the result when the LIMIT value is negative
SqlLimit(n, limit) == IF limit < 0 THEN n ELSE Min(n, limit)

\* the rows query of GET /api/logs (lines 164-173) over a table that holds
\* inWindow rows inside the day window
LogsRows(raw, inWindow) ==
    /\ ~crashed
    /\ last' = [op |-> "rows", status |-> 200, limit |-> raw, inWindow |-> inWindow,
                returned |-> SqlLimit(inWindow, LimitOf(raw))]
    /\ UNCHANGED <<requests, daily, today, afterDelete, crashed, apiKey, calls>>

EmptyDaily == [x \in {} |-> 0]

DeleteFaults == {"none", "first", "second"}

\* variant: only the requests table is cleared
execDelete_RequestsOnly(db, fault) ==
    CASE fault = "first" -> db
      [] OTHER           -> [requests |-> <<>>, daily |-> db.daily]

\* db.exec('DELETE FROM requests; DELETE FROM daily_summary;'): two statements,
\* each committed on its own; the first that throws ends the execution
execDelete(db, fault) ==
    CASE fault = "first"  -> db
      [] fault = "second" -> [requests |-> <<>>, daily |-> db.daily]
      [] OTHER            -> [requests |-> <<>>, daily |-> EmptyDaily]

\* DELETE /api/logs
DeleteLogs(fault) ==
    LET db == execDelete(DB, fault)
    IN /\ ~crashed
       /\ requests' = db.requests
       /\ daily' = db.daily
       /\ last' = Response("delete", IF fault = "none" THEN 200 ELSE 500,
                           FALSE, fault, NoSummary, FALSE)
       /\ afterDelete' = IF fault = "none"
                         THEN (afterDelete \/ requests # <<>> \/ DOMAIN daily # {})
                         ELSE IF fault = "second" THEN FALSE ELSE afterDelete
       /\ UNCHANGED <<today, crashed, apiKey, calls>>

\* midnight (UTC)
Tick ==
    /\ today < MaxDay
    /\ today' = today + 1
    /\ UNCHANGED <<requests, daily, last, afterDelete, crashed, apiKey, calls>>

\* the arguments of calcCost: the keys of the table, a dated name and a family
\* name that match a key by prefix, and names that match no key
CostModels ==
    {PRICES[i].key : i \in 1..Len(PRICES)}
      \cup { Sonnet45 \o <<"20250929">>, <<"claude">>, Unknown, <<"gemini", "pro">> }

InCounts == {0, 1, 1000, 1000000}
OutCounts == {0, 1, 1000, 10000}

\* a call of calcCost, its arguments and its return value kept in last
CalcCost(model, inputTok, outputTok) ==
    /\ ~crashed
    /\ last' = [op |-> "calcCost", model |-> model, input |-> inputTok,
                output |-> outputTok, cost |-> calcCost(model, inputTok, outputTok)]
    /\ UNCHANGED <<requests, daily, today, afterDelete, crashed, apiKey, calls>>

----------------------------------------------------------------------------
(* HTTP bodies of the buffered mode *)

\* a parsed JSON value: an object (with or without model and usage) or null;
\* the other kinds are the relay's own error objects
Val(kind, model, hasUsage, inTok, outTok) ==
    [kind |-> kind, model |-> model, hasUsage |-> hasUsage,
     input_tokens |-> inTok, output_tokens |-> outTok]

NoVal == Val("none", <<>>, FALSE, Undefined, Undefined)

\* the bytes of a body: json says that they parse as JSON, compact that they are
\* the serialization JSON.stringify produces for the value they parse to
Body(json, compact, val) == [json |-> json, compact |-> compact, val |-> val]

NoBody == Body(FALSE, FALSE, NoVal)

\* res.json(value): Content-Type application/json, body JSON.stringify(value)
Stringify(val) == Body(TRUE, TRUE, val)

MsgVal == Val("object", <<>>, TRUE, Num(100), Num(50))
MsgHaikuVal == Val("object", Haiku3, TRUE, Num(100), Undefined)
PlainVal == Val("object", <<>>, FALSE, Undefined, Undefined)
NullVal == Val("null", <<>>, FALSE, Undefined, Undefined)
HtmlVal == Val("html", <<>>, FALSE, Undefined, Undefined)

UpBodies ==
    { Body(TRUE, TRUE, MsgVal),        \* a message with usage, compact
      Body(TRUE, FALSE, MsgVal),       \* the same message, pretty-printed
      Body(TRUE, TRUE, MsgHaikuVal),   \* a message naming its model
      Body(TRUE, TRUE, PlainVal),      \* an object without usage
      Body(TRUE, TRUE, NullVal),       \* the JSON text null
      Body(FALSE, FALSE, HtmlVal) }    \* not JSON (an HTML error page)

ConfigError == Stringify(Val("config_error", <<>>, FALSE, Undefined, Undefined))
ProxyErrorBody == Stringify(Val("proxy_error", <<>>, FALSE, Undefined, Undefined))

UpStatuses == {200, 429}

\* Response.ok of node-fetch
Ok(status) == status >= 200 /\ status < 300

----------------------------------------------------------------------------
(* Server-sent events of the streamed mode *)

\* JSON texts of events: type, whether the usage object is present, its counts
Events ==
    [ms_100_0 |-> [type |-> "message_start", hasUsage |-> TRUE,
                   input_tokens |-> Num(100), output_tokens |-> Num(0)],
     md_50    |-> [type |-> "message_delta", hasUsage |-> TRUE,
                   input_tokens |-> Undefined, output_tokens |-> Num(50)],
     md_120   |-> [type |-> "message_delta", hasUsage |-> TRUE,
                   input_tokens |-> Undefined, output_tokens |-> Num(120)],
     md_0     |-> [type |-> "message_delta", hasUsage |-> TRUE,
                   input_tokens |-> Undefined, output_tokens |-> Num(0)],
     ping     |-> [type |-> "ping", hasUsage |-> FALSE,
                   input_tokens |-> Undefined, output_tokens |-> Undefined]]

JsonToks == DOMAIN Events

\* A chunk is a sequence of byte groups: "D" is the six bytes "data: ", "NL" a
\* newline, a member of JsonToks the JSON text of that event, "bad" a fragment
\* that is not JSON, "md_50/1" and "md_50/2" the two parts of one JSON text, "Lead" and "Trail" the two bytes of one two-byte UTF-8
\* character, "FFFD" the three bytes of U+FFFD.

\* Buffer.prototype.toString(): UTF-8 decoding; a byte that is not part of a
\* complete character decodes to U+FFFD
RECURSIVE toString(_)
toString(chunk) ==
    IF chunk = <<>> THEN <<>>
    ELSE IF Head(chunk) = "Lead"
         THEN IF Len(chunk) >= 2 /\ chunk[2] = "Trail"
              THEN <<"Lead", "Trail">> \o toString(Tail(Tail(chunk)))
              ELSE <<"FFFD">> \o toString(Tail(chunk))
         ELSE IF Head(chunk) = "Trail"
              THEN <<"FFFD">> \o toString(Tail(chunk))
              ELSE <<Head(chunk)>> \o toString(Tail(chunk))

\* String.prototype.split('\n')
RECURSIVE Split(_, _)
Split(text, cur) ==
    IF text = <<>> THEN <<cur>>
    ELSE IF Head(text) = "NL"
         THEN <<cur>> \o Split(Tail(text), <<>>)
         ELSE Split(Tail(text), Append(cur, Head(text)))

\* JSON.parse(line.slice(6)) returns a value exactly for one complete JSON text
Parses(line) == Len(line) = 2 /\ line[2] \in JsonToks

\* the body of the forEach callback: the counters after one line
ParseLine(tok, line) ==
    IF line = <<>> \/ Head(line) # "D" THEN tok
    ELSE IF ~Parses(line) THEN tok
    ELSE LET evt == Events[line[2]]
             t1 == IF evt.type = "message_start" /\ evt.hasUsage
                   THEN [inputTok |-> OrZero(evt.input_tokens),
                         outputTok |-> OrZero(evt.output_tokens)]
                   ELSE tok
         IN IF evt.type = "message_delta" /\ evt.hasUsage
            THEN [inputTok |-> t1.inputTok,
                  outputTok |-> OrElse(evt.output_tokens, t1.outputTok)]
            ELSE t1

\* a data line whose fragment JSON.parse refuses
Malformed(line) == line # <<>> /\ Head(line) = "D" /\ ~Parses(line)

\* variant: one try/catch around the whole forEach, so that the first fragment
\* that does not parse ends the pass over the chunk's lines
RECURSIVE ParseLines_StopAtError(_, _)
ParseLines_StopAtError(tok, lines) ==
    IF lines = <<>> \/ Malformed(Head(lines)) THEN tok
    ELSE ParseLines_StopAtError(ParseLine(tok, Head(lines)), Tail(lines))

\* text.split('\n').forEach(...): the counters after the lines of one chunk
RECURSIVE ParseLines(_, _)
ParseLines(tok, lines) ==
    IF lines = <<>> THEN tok
    ELSE ParseLines(ParseLine(tok, Head(lines)), Tail(lines))

Line(t) == <<"D", t, "NL">>

\* the JSON text of the md_50 event cut in two: "md_50/1" are its first
\* characters, "md_50/2" the rest
FirstHalf == <<"D", "md_50/1">>
SecondHalf == <<"md_50/2", "NL">>

\* chunks upstream may send
Chunks ==
    {Line(t) : t \in JsonToks \cup {"bad"}}
      \cup { <<"x", "Lead">>, <<"Trail", "NL">>, Line("bad") \o Line("md_50") }
      \cup { FirstHalf, SecondHalf }

CoreChunks == { Line("ms_100_0"), <<"x", "Lead">> }

----------------------------------------------------------------------------
(* GET /api/export *)

\* A text of the CSV export is a sequence of character groups: "NL" is a line
\* feed, "hdr" the header line's characters, "," a comma, "num", "uuid", "src"
\* and "ts" the characters of a number, of the request_id, of the source and of
\* created_at (none of them holds a line feed), and the model's own segments.

\* the template literal of line 387: the columns joined by commas, as they are
CsvLine(r) ==
    <<"num", ",", "uuid", ",">> \o r.model
        \o <<",", "num", ",", "num", ",", "num", ",", "src", ",", "ts">>

\* Array.prototype.join('\n') over the mapped rows
RECURSIVE JoinLines(_)
JoinLines(reqs) ==
    IF reqs = <<>> THEN <<>>
    ELSE IF Len(reqs) = 1 THEN CsvLine(Head(reqs))
    ELSE CsvLine(Head(reqs)) \o <<"NL">> \o JoinLines(Tail(reqs))

\* header + csv (lines 386-392)
CsvText(reqs) == <<"hdr", "NL">> \o JoinLines(reqs)

\* the records a reader of the CSV text finds: the lines after the header line,
\* an empty last line left out
CsvRecords(text) ==
    LET lines == Tail(Split(text, <<>>))
    IN Len(SelectSeq(lines, LAMBDA l : l # <<>>))

\* the records of the JSON export: res.json(rows) sends one array element per row
JsonRecords(reqs) == Len(reqs)

ExportFormats == {"json", "csv"}

\* GET /api/export: one SELECT reads the rows, the handler runs to its end
\* without a suspension point; stored is the number of rows at that instant
Export(fmt, fault) ==
    /\ ~crashed
    /\ last' = IF fault
               THEN [op |-> "export", status |-> 500, fmt |-> fmt, records |-> 0,
                     stored |-> Len(requests)]
               ELSE [op |-> "export", status |-> 200, fmt |-> fmt,
                     records |-> IF fmt = "csv" THEN CsvRecords(CsvText(requests))
                                 ELSE JsonRecords(requests),
                     stored |-> Len(requests)]
    /\ UNCHANGED <<requests, daily, today, afterDelete, crashed, apiKey, calls>>

\* a model name that ends in a line feed ("x-\n")
NewlineModel == <<"x", "NL">>

\* model names of the manual entries made around an export
ExportModels == {Sonnet45, NewlineModel}

----------------------------------------------------------------------------
(* POST /api/proxy *)

\* a key as issued, and the same key pasted into .env with a zero-width space
\* (U+200B) after it
IssuedKey == "sk-ant"
PastedKey == "sk-ant+U200B"

ApiKeys == {"", IssuedKey, PastedKey}

\* node-fetch (2.x, the version require('node-fetch') loads) validates every
\* header value when it builds the request: a character outside tab,
\* 0x20-0x7e and 0x80-0xff is refused
LegalHeaderValue(value) == value # PastedKey

\* the message of the error fetch() rejects with: for a refused header value
\* the TypeError "<value> is not a legal HTTP header value", which holds the
\* value; "fetch failed" stands for the message of a connection error
FetchErrorMessage(key) == IF LegalHeaderValue(key) THEN "fetch failed" ELSE key

\* request identifiers a caller may send along (0: none); they are no UUIDs of
\* this process
ClientIds == {MaxIds + 1}

\* pc: "idle" no call, "fetch" awaiting fetch(), "json" awaiting upstream.json(),
\* "stream" the data/end/error handlers are registered, "done" the handler is over.
\* status 0: no response head sent yet. clientId: the request identifier the
\* caller sent (0: none); failure: the transport failure the call met; message:
\* the e.message text of a 502 body; closed: the caller has disconnected.
NoCall ==
    [pc |-> "idle", stream |-> FALSE, model |-> <<>>, requestId |-> 0,
     upStatus |-> 0, upBody |-> NoBody, inputTok |-> 0, outputTok |-> 0,
     received |-> <<>>, written |-> <<>>, ended |-> FALSE,
     status |-> 0, body |-> NoBody, logged |-> FALSE,
     clientId |-> 0, failure |-> "none", message |-> "", closed |-> FALSE]

\* variant: the route forwards without looking at the credential
ProxyReceive_NoGuard(c, bodyModel, stream, clientId) ==
    /\ ~crashed
    /\ calls[c].pc \in {"idle", "done"}
    /\ HasFresh
    /\ calls' = [calls EXCEPT ![c] =
                    [NoCall EXCEPT !.pc = "fetch",
                                   !.stream = stream,
                                   !.model = IF bodyModel = <<>> THEN Sonnet45 ELSE bodyModel,
                                   !.requestId = FreshId,
                                   !.clientId = clientId]]
    /\ UNCHANGED <<requests, daily, today, last, afterDelete, crashed, apiKey>>

\* lines 235-246: the credential guard, then model, stream and requestId; the
\* route reads no request identifier of the caller (clientId is what was sent)
ProxyReceive(c, bodyModel, stream, clientId) ==
    /\ ~crashed
    /\ calls[c].pc \in {"idle", "done"}
    /\ IF apiKey = ""
       THEN calls' = [calls EXCEPT ![c] =
                        [NoCall EXCEPT !.pc = "done", !.status = 500, !.body = ConfigError,
                                       !.clientId = clientId]]
       ELSE /\ HasFresh
            /\ calls' = [calls EXCEPT ![c] =
                            [NoCall EXCEPT !.pc = "fetch",
                                           !.stream = stream,
                                           !.model = IF bodyModel = <<>> THEN Sonnet45 ELSE bodyModel,
                                           !.requestId = FreshId,
                                           !.clientId = clientId]]
    /\ UNCHANGED <<requests, daily, today, last, afterDelete, crashed, apiKey>>

\* the catch of lines 323-326: the body is { error: 'Proxy error: ' + e.message }
Caught(call) ==
    [call EXCEPT !.pc = "done", !.status = 502, !.body = ProxyErrorBody,
                 !.message = "error"]

\* fetch() rejects: the connection failed, or the request could not be built
ProxyFetchFail(c) ==
    /\ ~crashed
    /\ calls[c].pc = "fetch"
    /\ calls' = [calls EXCEPT ![c] =
                    [Caught(@) EXCEPT !.failure = "fetch",
                                      !.message = FetchErrorMessage(apiKey)]]
    /\ UNCHANGED <<requests, daily, today, last, afterDelete, crashed, apiKey>>

\* fetch() resolves with the upstream status line; in streamed mode the three
\* response headers are set and the handlers registered (lines 259-298)
ProxyFetchOk(c, upStatus) ==
    /\ ~crashed
    /\ calls[c].pc = "fetch"
    /\ LegalHeaderValue(apiKey)
    /\ calls' = [calls EXCEPT ![c] =
                    [@ EXCEPT !.pc = IF calls[c].stream THEN "stream" ELSE "json",
                              !.upStatus = upStatus]]
    /\ UNCHANGED <<requests, daily, today, last, afterDelete, crashed, apiKey>>

\* the argument of the logRequest call of lines 309-317 (the modelled bodies
\* carry no cache counts: both default to 0)
BufferedData(call, data) ==
    Data(call.requestId,
         IF data.model # <<>> THEN data.model ELSE call.model,
         Num(OrZero(IF data.hasUsage THEN data.input_tokens ELSE Undefined)),
         Num(OrZero(IF data.hasUsage THEN data.output_tokens ELSE Undefined)),
         Num(0), Num(0), "proxy")

\* lines 302-320: upstream.json() resolves or rejects, then the buffered branch
ProxyJson(c, upBody, fault) ==
    LET call == [calls[c] EXCEPT !.upBody = upBody]
        data == upBody.val
        r == logRequest(DB, BufferedData(call, data), 0, today, fault)
    IN /\ ~crashed
       /\ calls[c].pc = "json"
       /\ IF ~upBody.json
          THEN \* upstream.json() rejects
               /\ calls' = [calls EXCEPT ![c] = Caught(call)]
               /\ UNCHANGED <<requests, daily, afterDelete, crashed>>
          ELSE IF ~Ok(call.upStatus)
          THEN /\ calls' = [calls EXCEPT ![c] =
                              [call EXCEPT !.pc = "done", !.status = call.upStatus,
                                           !.body = Stringify(data)]]
               /\ UNCHANGED <<requests, daily, afterDelete, crashed>>
          ELSE IF data.kind = "null"
          THEN \* data.usage of null throws a TypeError
               /\ calls' = [calls EXCEPT ![c] = Caught(call)]
               /\ UNCHANGED <<requests, daily, afterDelete, crashed>>
          ELSE /\ WithinBounds(r.db)
               /\ requests' = r.db.requests
               /\ daily' = r.db.daily
               /\ afterDelete' = ClearedAfterLog(r.threw)
               /\ crashed' = (fault = "crash")
               /\ calls' = [calls EXCEPT ![c] =
                              IF fault = "crash" THEN call
                              ELSE IF r.threw THEN Caught(call)
                              ELSE [call EXCEPT !.pc = "done", !.status = call.upStatus,
                                                !.body = Stringify(data), !.logged = TRUE]]
       /\ UNCHANGED <<today, last, apiKey>>

\* res.write(text): the string is sent UTF-8 encoded; U+FFFD is sent as its own bytes
Utf8Encode(text) == text

\* the argument of the logRequest call of line 290
StreamData(call) ==
    Data(call.requestId, call.model, Num(call.inputTok), Num(call.outputTok),
         Undefined, Undefined, "proxy")

\* variant: the data handler writes the record as soon as a counter is not 0
ProxyData_LogsEarly(c, chunk) ==
    LET call == calls[c]
        text == toString(chunk)
        tok == ParseLines([inputTok |-> call.inputTok, outputTok |-> call.outputTok],
                          Split(text, <<>>))
        fed == [call EXCEPT !.received = Append(@, chunk),
                            !.written = Append(@, Utf8Encode(text)),
                            !.status = 200,
                            !.inputTok = tok.inputTok,
                            !.outputTok = tok.outputTok]
        r == logRequest(DB, StreamData(fed), 0, today, "none")
        writes == (tok.inputTok # 0 \/ tok.outputTok # 0) /\ WithinBounds(r.db)
    IN /\ ~crashed
       /\ call.pc = "stream"
       /\ Len(call.received) < MaxChunks
       /\ calls' = [calls EXCEPT ![c] = fed]
       /\ requests' = IF writes THEN r.db.requests ELSE requests
       /\ daily' = IF writes THEN r.db.daily ELSE daily
       /\ UNCHANGED <<today, last, afterDelete, crashed, apiKey>>

\* upstream.body.on('data') (lines 267-285)
ProxyData(c, chunk) ==
    LET call == calls[c]
        text == toString(chunk)
        tok == ParseLines([inputTok |-> call.inputTok, outputTok |-> call.outputTok],
                          Split(text, <<>>))
    IN /\ ~crashed
       /\ call.pc = "stream"
       /\ Len(call.received) < MaxChunks
       /\ calls' = [calls EXCEPT ![c] =
                      [call EXCEPT !.received = Append(@, chunk),
                                   !.written = Append(@, Utf8Encode(text)),
                                   !.status = 200,
                                   !.inputTok = tok.inputTok,
                                   !.outputTok = tok.outputTok]]
       /\ UNCHANGED <<requests, daily, today, last, afterDelete, crashed, apiKey>>

\* variant: the record is written at every end of stream
ProxyEnd_AlwaysLogs(c, fault) ==
    LET call == calls[c]
        r == logRequest(DB, StreamData(call), 0, today, fault)
        ended == [call EXCEPT !.pc = "done", !.ended = TRUE, !.status = 200]
    IN /\ ~crashed
       /\ call.pc = "stream"
       /\ WithinBounds(r.db)
       /\ requests' = r.db.requests
       /\ daily' = r.db.daily
       /\ afterDelete' = ClearedAfterLog(r.threw)
       /\ crashed' = r.threw
       /\ calls' = [calls EXCEPT ![c] = [ended EXCEPT !.logged = ~r.threw]]
       /\ UNCHANGED <<today, last, apiKey>>

\* upstream.body.on('end') (lines 287-293); the handler runs outside the try of
\* the route, so an exception of logRequest is uncaught and ends the process
ProxyEnd(c, fault) ==
    LET call == calls[c]
        r == logRequest(DB, StreamData(call), 0, today, fault)
        ended == [call EXCEPT !.pc = "done", !.ended = TRUE, !.status = 200]
    IN /\ ~crashed
       /\ call.pc = "stream"
       /\ IF call.inputTok # 0 \/ call.outputTok # 0
          THEN /\ WithinBounds(r.db)
               /\ requests' = r.db.requests
               /\ daily' = r.db.daily
               /\ afterDelete' = ClearedAfterLog(r.threw)
               /\ crashed' = r.threw
               /\ calls' = [calls EXCEPT ![c] = [ended EXCEPT !.logged = ~r.threw]]
          ELSE /\ fault = "none"
               /\ calls' = [calls EXCEPT ![c] = ended]
               /\ UNCHANGED <<requests, daily, afterDelete, crashed>>
       /\ UNCHANGED <<today, last, apiKey>>

\* variant: the error handler writes the record of whatever was counted
ProxyError_LogsPartial(c) ==
    LET call == calls[c]
        r == logRequest(DB, StreamData(call), 0, today, "none")
    IN /\ ~crashed
       /\ call.pc = "stream"
       /\ WithinBounds(r.db)
       /\ requests' = r.db.requests
       /\ daily' = r.db.daily
       /\ calls' = [calls EXCEPT ![c] = [call EXCEPT !.pc = "done", !.ended = TRUE,
                                                      !.status = 200, !.failure = "stream",
                                                      !.logged = TRUE]]
       /\ UNCHANGED <<today, last, afterDelete, crashed, apiKey>>

\* upstream.body.on('error') (lines 295-298)
ProxyError(c) ==
    /\ ~crashed
    /\ calls[c].pc = "stream"
    /\ calls' = [calls EXCEPT ![c] = [@ EXCEPT !.pc = "done", !.ended = TRUE, !.status = 200,
                                               !.failure = "stream"]]
    /\ UNCHANGED <<requests, daily, today, last, afterDelete, crashed, apiKey>>

\* the caller closes its connection during a streamed response: the route has
\* no handler for it, the upstream handlers stay registered
ClientClose(c) ==
    /\ ~crashed
    /\ calls[c].pc = "stream"
    /\ ~calls[c].closed
    /\ calls' = [calls EXCEPT ![c] = [@ EXCEPT !.closed = TRUE]]
    /\ UNCHANGED <<requests, daily, today, last, afterDelete, crashed, apiKey>>

\* GET /api/health
Health ==
    /\ ~crashed
    /\ last' = [op |-> "health", status |-> 200, keyLoaded |-> (apiKey # "")]
    /\ UNCHANGED <<requests, daily, today, afterDelete, crashed, apiKey, calls>>

\* the process is started again: the database file is kept, the calls are gone
Restart(key) ==
    /\ crashed
    /\ crashed' = FALSE
    /\ apiKey' = key
    /\ calls' = [c \in CallIds |-> NoCall]
    /\ last' = NoResponse
    /\ UNCHANGED <<requests, daily, today, afterDelete>>

----------------------------------------------------------------------------
(* Specifications *)

Init ==
    /\ requests = <<>>
    /\ daily = EmptyDaily
    /\ today = 1
    /\ last = NoResponse
    /\ afterDelete = FALSE
    /\ crashed = FALSE
    /\ apiKey \in ApiKeys
    /\ calls = [c \in CallIds |-> NoCall]

RecordStep ==
    \E id \in ReqIds, inp \in RecordInputs, f \in TxnFaults :
        Record(id, inp[1], inp[2], inp[3], f)

ManualStep ==
    \E inp \in ManualInputs, f \in TxnFaults :
        Manual(inp[1], inp[2], inp[3], f)

GetLogsStep == \E f \in BOOLEAN : GetLogs(f)

DeleteLogsStep == \E f \in DeleteFaults : DeleteLogs(f)

ProxyReceiveStep ==
    \E c \in CallIds, m \in {Haiku3, <<>>}, st \in BOOLEAN, id \in ClientIds \cup {0} :
        ProxyReceive(c, m, st, id)

ProxyFetchFailStep == \E c \in CallIds : ProxyFetchFail(c)

ProxyFetchOkStep == \E c \in CallIds, st \in UpStatuses : ProxyFetchOk(c, st)

ProxyJsonStep == \E c \in CallIds, b \in UpBodies, f \in TxnFaults : ProxyJson(c, b, f)

ProxyEndStep == \E c \in CallIds, f \in TxnFaults : ProxyEnd(c, f)

ProxyErrorStep == \E c \in CallIds : ProxyError(c)

RestartStep == \E k \in ApiKeys : Restart(k)

NextLedger ==
    \/ RecordStep
    \/ ManualStep
    \/ GetLogsStep
    \/ \E f \in DeleteFaults \ {"second"} : DeleteLogs(f)
    \/ Tick
    \/ Restart(apiKey)

InitLedger == Init /\ apiKey = IssuedKey

SpecLedger == InitLedger /\ [][NextLedger]_vars

\* the bulk delete, each statement of db.exec able to fail, around manual entries
NextClear ==
    \/ ManualStep
    \/ GetLogsStep
    \/ DeleteLogsStep
    \/ Tick
    \/ Restart(apiKey)

SpecClear == InitLedger /\ [][NextClear]_vars

\* (input_tokens, output_tokens) of manual-entry bodies: counts, a negative
\* count, an absent field
PayloadInputs ==
    { <<Num(100), Num(50)>>, <<Num(-100), Num(50)>>, <<Undefined, Num(-1)>> }

\* manual entries with any counts, among bulk deletes and midnights
NextPayload ==
    \/ \E inp \in PayloadInputs : Manual(Sonnet45, inp[1], inp[2], "none")
    \/ \E f \in DeleteFaults \ {"second"} : DeleteLogs(f)
    \/ GetLogsStep
    \/ Tick

SpecPayload == InitLedger /\ [][NextPayload]_vars

\* the rows query of the log read, over LimitParams and WindowSizes
NextLimit ==
    \E raw \in LimitParams, n \in WindowSizes : LogsRows(raw, n)

SpecLimit == InitLedger /\ [][NextLimit]_vars

\* exports among manual entries and bulk deletes
NextExport ==
    \/ \E m \in ExportModels : Manual(m, Num(100), Num(50), "none")
    \/ \E f \in DeleteFaults : DeleteLogs(f)
    \/ \E fmt \in ExportFormats, f \in BOOLEAN : Export(fmt, f)
    \/ Tick

SpecExport == InitLedger /\ [][NextExport]_vars

\* calcCost alone, over CostModels and the token counts
NextCost ==
    \E m \in CostModels, i \in InCounts, o \in OutCounts : CalcCost(m, i, o)

SpecCost == InitLedger /\ [][NextCost]_vars

\* the relay, any number of calls in flight at once
NextCalls ==
    \/ ProxyReceiveStep
    \/ ProxyFetchFailStep
    \/ ProxyFetchOkStep
    \/ ProxyJsonStep
    \/ \E c \in CallIds, ch \in CoreChunks : ProxyData(c, ch)
    \/ ProxyEndStep
    \/ ProxyErrorStep
    \/ RestartStep

SpecCalls == Init /\ [][NextCalls]_vars

\* the relay, one call after the other, in both modes
NextRelay ==
    \/ \E m \in {Haiku3, <<>>}, st \in BOOLEAN : ProxyReceive(1, m, st, 0)
    \/ ProxyFetchFail(1)
    \/ \E st \in UpStatuses : ProxyFetchOk(1, st)
    \/ \E b \in UpBodies, f \in TxnFaults : ProxyJson(1, b, f)
    \/ \E ch \in CoreChunks : ProxyData(1, ch)
    \/ \E f \in TxnFaults : ProxyEnd(1, f)
    \/ ProxyError(1)
    \/ Health
    \/ RestartStep

SpecRelay == Init /\ [][NextRelay]_vars

\* one streamed call of a process, followed from its receipt to its end
NextStream ==
    \/ calls[1].pc = "idle" /\ \E m \in {Haiku3, <<>>} : ProxyReceive(1, m, TRUE, 0)
    \/ ProxyFetchFail(1)
    \/ \E st \in UpStatuses : ProxyFetchOk(1, st)
    \/ \E ch \in Chunks : ProxyData(1, ch)
    \/ \E f \in TxnFaults : ProxyEnd(1, f)
    \/ ProxyError(1)
    \/ ClientClose(1)
    \/ Restart(apiKey)

SpecStream == InitLedger /\ [][NextStream]_vars

\* outcomes of a ledger write, upstream bodies and chunks of the calls followed
\* to their end
LiveFaults == {"none", "insert"}

LiveBodies == { Body(TRUE, TRUE, MsgVal), Body(FALSE, FALSE, HtmlVal) }

LiveChunks == { Line("ms_100_0") }

\* calls of both modes in flight together in one run of the process (nothing
\* in the repository starts it again), each slot taking one call
NextLive ==
    \/ \E c \in CallIds, st \in BOOLEAN :
          calls[c].pc = "idle" /\ ProxyReceive(c, <<>>, st, 0)
    \/ ProxyFetchFailStep
    \/ ProxyFetchOkStep
    \/ \E c \in CallIds, b \in LiveBodies, f \in LiveFaults : ProxyJson(c, b, f)
    \/ \E c \in CallIds, ch \in LiveChunks : ProxyData(c, ch)
    \/ \E c \in CallIds, f \in LiveFaults : ProxyEnd(c, f)
    \/ ProxyErrorStep

\* upstream answers every fetch, delivers every buffered body and ends or
\* breaks every stream: the promise of fetch() and of upstream.json() settles,
\* the body stream emits 'end' or 'error'
Upstream(c) ==
    \/ ProxyFetchFail(c)
    \/ \E st \in UpStatuses : ProxyFetchOk(c, st)
    \/ \E b \in LiveBodies, f \in LiveFaults : ProxyJson(c, b, f)
    \/ ProxyError(c)
    \/ \E f \in LiveFaults : ProxyEnd(c, f)

FairLive == \A c \in CallIds : WF_vars(Upstream(c))

SpecLive == InitLedger /\ [][NextLive]_vars /\ FairLive

----------------------------------------------------------------------------
(* Properties of the ledger *)

\* The step is a call of logRequest through the record operation or the manual
\* route: these are the only steps that change a variable, leave the clock and
\* the relay's calls alone and end with the response of one of the two in last.
IsLogStep ==
    /\ vars' # vars
    /\ last'.op \in {"record", "manual"}
    /\ today' = today /\ calls' = calls /\ ~crashed

\* C1: a record call whose request_id is already stored leaves the daily
\* aggregates unchanged (each request_id is counted once, not once per call).
C1_CountedOncePerRequestId ==
    [][(IsLogStep /\ last'.dup) => daily' = daily]_vars

UniqueRequestIds ==
    \A i, j \in 1..Len(requests) :
        requests[i].request_id = requests[j].request_id => i = j

\* C2: no two stored rows share a request_id, and a record call whose
\* request_id is already stored never changes the stored rows and, unless the
\* storage itself fails, returns normally.
C2_UniqueAndSilentDuplicate ==
    /\ []UniqueRequestIds
    /\ [][(IsLogStep /\ last'.dup) =>
            /\ requests' = requests
            /\ (last'.fault = "none" => last'.status = 200)]_vars

C2_Witness ==
    /\ last.op = "record" /\ last.dup /\ last.fault = "none" /\ last.status = 200
    /\ Len(requests) = 2

RowsOf(reqs, day) == SelectSeq(reqs, LAMBDA r : r.created_at = day)

AggregateConsistent(reqs, d) ==
    \A day \in Days :
        IF day \in DOMAIN d
        THEN /\ d[day].total_requests = Len(RowsOf(reqs, day))
             /\ d[day].total_cost = SumOf(RowsOf(reqs, day), "cost_usd")
        ELSE RowsOf(reqs, day) = <<>>

\* C3: every record operation (manual entry or record call, a repeated
\* request_id included) keeps, for every date, total_requests equal to the
\* number of rows created that date and total_cost equal to the sum of their costs.
C3_AggregateMatchesRows ==
    [][(IsLogStep /\ AggregateConsistent(requests, daily))
          => AggregateConsistent(requests', daily')]_vars

CountOn(d, day) == IF day \in DOMAIN d THEN d[day].total_requests ELSE 0

\* C4: the row insertion and the aggregate update of one record call are one
\* unit: a call that fails (a statement throws, or the process dies between the
\* two statements) changes neither table, a new row is visible only together
\* with its aggregate increment, and an aggregate changes only in a call that
\* met no fault and returned.
C4_RecordIsAtomic ==
    [][IsLogStep =>
         /\ (last'.fault # "none" \/ last'.status # 200
               => requests' = requests /\ daily' = daily)
         /\ (requests' # requests => CountOn(daily', today) = CountOn(daily, today) + 1)
         /\ (daily' # daily => last'.fault = "none" /\ last'.status = 200)]_vars

C4_Witness ==
    /\ last.op = "record" /\ last.fault \in {"update", "crash"} /\ ~last.dup
    /\ requests # <<>>
    /\ AggregateConsistent(requests, daily)

ZeroSummary == [total_cost |-> Num(0), total_input |-> Num(0),
                total_output |-> Num(0), total_requests |-> Num(0)]

C24_DeleteAllOrNothing ==
    /\ []((requests = <<>>) <=> (DOMAIN daily = {}))
    /\ [][(last'.op = "delete" /\ last'.status # 200)
            => requests' = requests /\ daily' = daily]_vars

RowsNonNegative ==
    \A i \in 1..Len(requests) :
        /\ requests[i].input_tokens >= 0 /\ requests[i].output_tokens >= 0
        /\ requests[i].cache_read_tokens >= 0 /\ requests[i].cache_write_tokens >= 0
        /\ requests[i].cost_usd >= 0

\* C22: every stored row has non-negative token counts and a non-negative
\* cost, whatever counts the manual entries carry, and so no total of a daily
\* aggregate decreases in a step other than a bulk delete.
C22_CountsNeverNegative ==
    /\ []RowsNonNegative
    /\ [][last'.op # "delete" =>
            \A d \in DOMAIN daily :
                /\ d \in DOMAIN daily'
                /\ daily'[d].total_cost >= daily[d].total_cost
                /\ daily'[d].total_requests >= daily[d].total_requests
                /\ daily'[d].total_input_tokens >= daily[d].total_input_tokens
                /\ daily'[d].total_output_tokens >= daily[d].total_output_tokens]_vars

\* a limit parameter that gives no usable number: absent, not numeric, or 0
NoUsableLimit(raw) == raw.t # "num" \/ raw.n = 0

\* C23: the log read returns at most 2000 rows for every value of the limit
\* parameter, and at most 500 when no usable limit is given.
C23_RowsCapped ==
    last.op = "rows" =>
        /\ last.returned <= 2000
        /\ (NoUsableLimit(last.limit) => last.returned <= 500)

\* C11: an export that answers success holds, in the JSON shape and in the CSV
\* shape, exactly as many records as the ledger stored at the instant of the
\* read, whatever inserts and bulk deletes came before it.
C11_ExportCountsLedger ==
    (last.op = "export" /\ last.status = 200) => last.records = last.stored

----------------------------------------------------------------------------
(* Properties of the pricing *)

IsKey(model) == \E i \in 1..Len(PRICES) : PRICES[i].key = model

NoEntryMatches(model) ==
    \A i \in 1..Len(PRICES) :
        ~IsPrefix(PRICES[i].key, model) /\ ~IsPrefix(model, PRICES[i].key)

\* in * inputPrice + out * outputPrice for the entry of key, in 1e-8 USD
CostAt(key, inputTok, outputTok) ==
    LET e == PRICES[CHOOSE i \in 1..Len(PRICES) : PRICES[i].key = key]
    IN inputTok * e.in + outputTok * e.out

\* C12: calcCost(model, in, out) is in * inputPrice + out * outputPrice (per
\* million tokens) of the model's own entry when the model is a key of the
\* table, and of the claude-sonnet-4-5 entry when the model matches no key;
\* calcCost("claude-sonnet-4-5", 1000000, 0) is 3.00 USD, the listed input price.
C12_CostOfResolvedEntry ==
    last.op = "calcCost" =>
        /\ (IsKey(last.model) => last.cost = CostAt(last.model, last.input, last.output))
        /\ (NoEntryMatches(last.model)
              => last.cost = CostAt(Sonnet45, last.input, last.output))
        /\ (last.model = Sonnet45 /\ last.input = 1000000 /\ last.output = 0
              => last.cost = 300000000)

C12_Witness ==
    /\ last.op = "calcCost" /\ last.model = Unknown
    /\ last.input = 1000 /\ last.output = 1000
    /\ last.cost = 1000 * 300 + 1000 * 1500

----------------------------------------------------------------------------
(* Properties of the relay *)

CallStep(c) == calls'[c] # calls[c]

Rejected(call) == call.upStatus # 0 /\ ~Ok(call.upStatus)

\* C5: a step of a call whose upstream status is a non-success status changes
\* neither table, in buffered and in streamed mode.
C5_NoLogOnUpstreamFailure ==
    [][\A c \in CallIds :
         (CallStep(c) /\ Rejected(calls'[c])) => requests' = requests /\ daily' = daily]_vars

\* C6: a call answered by upstream with a non-success status delivers the
\* upstream status and the upstream body to the caller, in both modes.
C6_RejectionPassedVerbatim ==
    \A c \in CallIds :
        (calls[c].pc = "done" /\ Rejected(calls[c])) =>
            /\ calls[c].status = calls[c].upStatus
            /\ IF calls[c].stream
               THEN calls[c].written = calls[c].received
               ELSE calls[c].body = calls[c].upBody

\* C7: a buffered call answered by upstream with a success status delivers the
\* upstream status and the upstream body, whether the ledger write succeeds or fails.
C7_BufferedSuccessPassedThrough ==
    \A c \in CallIds :
        (calls[c].pc = "done" /\ ~calls[c].stream /\ Ok(calls[c].upStatus)) =>
            /\ calls[c].status = calls[c].upStatus
            /\ calls[c].body = calls[c].upBody

\* C8: in streamed mode every chunk received from upstream has been written to
\* the caller once, in arrival order and with its content unchanged.
C8_ChunksForwardedUnchanged ==
    \A c \in CallIds : calls[c].written = calls[c].received

RowOf(id) == requests[CHOOSE i \in 1..Len(requests) : requests[i].request_id = id]

\* the counters after one line when every usage-bearing message_delta replaces
\* the output counter by the count it carries
ReplacingLine(tok, line) ==
    IF line = <<>> \/ Head(line) # "D" \/ ~Parses(line) THEN tok
    ELSE LET evt == Events[line[2]]
         IN IF evt.type = "message_start" /\ evt.hasUsage
            THEN [inputTok |-> OrZero(evt.input_tokens), outputTok |-> OrZero(evt.output_tokens)]
            ELSE IF evt.type = "message_delta" /\ evt.hasUsage
            THEN [inputTok |-> tok.inputTok, outputTok |-> OrZero(evt.output_tokens)]
            ELSE tok

RECURSIVE ReplacingLines(_, _)
ReplacingLines(tok, lines) ==
    IF lines = <<>> THEN tok
    ELSE ReplacingLines(ReplacingLine(tok, Head(lines)), Tail(lines))

RECURSIVE ReplacingUsage(_, _)
ReplacingUsage(tok, chunks) ==
    IF chunks = <<>> THEN tok
    ELSE ReplacingUsage(ReplacingLines(tok, Split(toString(Head(chunks)), <<>>)), Tail(chunks))

\* the first chunk is the line of a usage-bearing message_start
BeginsWithStart(chunks) ==
    /\ chunks # <<>>
    /\ \E t \in JsonToks :
          Head(chunks) = Line(t) /\ Events[t].type = "message_start" /\ Events[t].hasUsage

\* C9: the record written at the end of a stream carries the input count of the
\* last usage-bearing message_start and the output count of the last
\* usage-bearing message_delta after it (the message_start's when there is
\* none): a message_delta replaces the output counter by its own value.
C9_DeltaReplacesOutput ==
    \A c \in CallIds :
        (calls[c].pc = "done" /\ calls[c].stream /\ calls[c].logged
           /\ BeginsWithStart(calls[c].received)) =>
            LET u == ReplacingUsage([inputTok |-> 0, outputTok |-> 0], calls[c].received)
            IN /\ RowOf(calls[c].requestId).input_tokens = u.inputTok
               /\ RowOf(calls[c].requestId).output_tokens = u.outputTok

\* C13: no response delivered to a caller carries the value of the credential:
\* the text of an error response is not made of it, and the health response
\* tells only whether one is set (two runs that differ in the value of a set
\* credential answer every caller alike).
C13_CredentialNeverEchoed ==
    /\ \A c \in CallIds : calls[c].message \notin ApiKeys \ {""}
    /\ (last.op = "health" /\ apiKey # "" => last.keyLoaded)

\* C14: a call that came with a request identifier of the caller is recorded
\* under that identifier, so two calls that came with the same identifier (a
\* retry) are recorded under one request_id: at most one row.
C14_ClientIdIsRequestId ==
    /\ \A c \in CallIds :
          (calls[c].logged /\ calls[c].clientId # 0)
              => calls[c].requestId = calls[c].clientId
    /\ \A c, d \in CallIds :
          (calls[c].logged /\ calls[d].logged /\ calls[c].clientId # 0
             /\ calls[c].clientId = calls[d].clientId)
              => calls[c].requestId = calls[d].requestId

\* C15: a streamed call whose caller has disconnected writes no record, also
\* when usage was seen before the disconnect and upstream goes on to its end.
C15_NoRecordAfterDisconnect ==
    \A c \in CallIds : calls[c].closed => ~calls[c].logged

NoForward(call) == call.upStatus = 0 /\ call.received = <<>> /\ call.failure = "none"

\* C16: while no credential is configured no call goes upstream: every call is
\* over with status 500 and the configuration error, none is recorded, and no
\* step changes a table or another call.
C16_MissingKeyRefused ==
    /\ [](apiKey = "" =>
            \A c \in CallIds :
                /\ calls[c].pc \in {"idle", "done"}
                /\ NoForward(calls[c]) /\ ~calls[c].logged
                /\ (calls[c].pc = "done"
                      => calls[c].status = 500 /\ calls[c].body = ConfigError))
    /\ [][apiKey = "" =>
            /\ requests' = requests /\ daily' = daily
            /\ \A c \in CallIds :
                  CallStep(c) => \A d \in CallIds \ {c} : calls'[d] = calls[d]]_vars

C16_Witness ==
    /\ apiKey = ""
    /\ calls[1].pc = "done" /\ calls[1].status = 500 /\ calls[1].body = ConfigError
    /\ requests # <<>>

\* C17: a call whose upstream exchange failed at transport level before
\* anything was sent to the caller answers 502 and is not recorded; the failure
\* ends the call (no second upstream request), and its step changes no table.
C17_TransportFailureIs502 ==
    /\ [](\A c \in CallIds :
            (calls[c].failure # "none" /\ calls[c].written = <<>>)
                => /\ calls[c].pc = "done"
                   /\ calls[c].status = 502
                   /\ ~calls[c].logged)
    /\ [][\A c \in CallIds :
            (calls[c].failure = "none" /\ calls'[c].failure # "none")
                => requests' = requests /\ daily' = daily]_vars

NoUsage == [inputTok |-> 0, outputTok |-> 0]

Counters(call) == [inputTok |-> call.inputTok, outputTok |-> call.outputTok]

Streaming(call) == call.stream /\ call.pc \in {"stream", "done"}

RECURSIVE Concat(_)
Concat(chunks) ==
    IF chunks = <<>> THEN <<>> ELSE Head(chunks) \o Concat(Tail(chunks))

\* the two parts of the cut JSON text, next to each other, are that JSON text
RECURSIVE Glue(_)
Glue(bytes) ==
    IF Len(bytes) < 2 THEN bytes
    ELSE IF bytes[1] = "md_50/1" /\ bytes[2] = "md_50/2"
         THEN <<"md_50">> \o Glue(Tail(Tail(bytes)))
         ELSE <<Head(bytes)>> \o Glue(Tail(bytes))

\* the lines of the byte stream the chunks make up
StreamLines(chunks) == Split(toString(Glue(Concat(chunks))), <<>>)

\* the counters of the relay when the same bytes arrive as one chunk
OneChunkUsage(chunks) == ParseLines(NoUsage, StreamLines(chunks))

\* the byte stream is a sequence of server-sent events: each of its lines is
\* empty or a data line with one JSON text
IsEventStream(chunks) ==
    \A i \in 1..Len(StreamLines(chunks)) :
        LET l == StreamLines(chunks)[i]
        IN l = <<>> \/ (Head(l) = "D" /\ Parses(l))

\* C18: the usage counters of a streamed call are those of the same sequence of
\* events delivered as a single chunk: they do not depend on where the byte
\* stream is cut into chunks, a cut inside a data line included.
C18_UsageIndependentOfChunking ==
    \A c \in CallIds :
        (Streaming(calls[c]) /\ IsEventStream(calls[c].received))
            => Counters(calls[c]) = OneChunkUsage(calls[c].received)

\* the counters of the relay over the chunks without their malformed data lines
RECURSIVE CleanUsage(_, _)
CleanUsage(tok, chunks) ==
    IF chunks = <<>> THEN tok
    ELSE CleanUsage(ParseLines(tok, SelectSeq(Split(toString(Head(chunks)), <<>>),
                                              LAMBDA l : ~Malformed(l))),
                    Tail(chunks))

\* C19: malformed data fragments are skipped: the counters of a streamed call,
\* and the record written at its end, are those of the same chunks with the
\* malformed fragments removed, also for a valid event that follows a
\* malformed fragment in its chunk.
C19_MalformedFragmentsSkipped ==
    \A c \in CallIds :
        Streaming(calls[c]) =>
            LET u == CleanUsage(NoUsage, calls[c].received)
            IN /\ Counters(calls[c]) = u
               /\ (calls[c].logged =>
                     /\ RowOf(calls[c].requestId).input_tokens = u.inputTok
                     /\ RowOf(calls[c].requestId).output_tokens = u.outputTok)

C19_Witness ==
    /\ calls[1].pc = "done" /\ calls[1].logged
    /\ calls[1].received = <<Line("ms_100_0"), Line("bad") \o Line("md_50")>>
    /\ RowOf(calls[1].requestId).input_tokens = 100
    /\ RowOf(calls[1].requestId).output_tokens = 50

\* a usage-bearing event is among the data lines of the chunks
ObservedUsage(chunks) ==
    \E i \in 1..Len(chunks) :
        LET lines == Split(toString(chunks[i]), <<>>)
        IN \E j \in 1..Len(lines) :
              /\ lines[j] # <<>> /\ Head(lines[j]) = "D" /\ Parses(lines[j])
              /\ Events[lines[j][2]].hasUsage

StreamFailed(call) == call.stream /\ call.failure = "stream" /\ call.received # <<>>

\* C21: when upstream's stream errors after chunks were delivered, the caller's
\* stream is ended, and the call has a record only if a usage-bearing event was
\* seen before the error: with none seen there is no record of the call.
C21_StreamErrorRecordsOnlyObservedUsage ==
    \A c \in CallIds :
        StreamFailed(calls[c]) =>
            /\ calls[c].pc = "done" /\ calls[c].ended
            /\ (calls[c].logged \/ HasRequestId(requests, calls[c].requestId)
                  => ObservedUsage(calls[c].received))

C21_Witness ==
    /\ StreamFailed(calls[1]) /\ calls[1].ended
    /\ calls[1].received = <<Line("ping"), Line("bad")>>
    /\ ~HasRequestId(requests, calls[1].requestId)

NaturalEnd(call) ==
    call.stream /\ call.pc = "done" /\ call.ended /\ call.failure = "none"

\* C20: a streamed call that reached its natural end (the ledger write, when
\* there was one, having succeeded) has a record exactly when one of its two
\* counters is not 0, and an end of stream with both counters 0 changes
\* neither table.
C20_RecordIffUsage ==
    /\ [](\A c \in CallIds :
            (NaturalEnd(calls[c]) /\ ~crashed) =>
                /\ calls[c].logged <=> (calls[c].inputTok # 0 \/ calls[c].outputTok # 0)
                /\ calls[c].logged <=> HasRequestId(requests, calls[c].requestId))
    /\ [][\A c \in CallIds :
            (calls[c].pc = "stream" /\ NaturalEnd(calls'[c])
               /\ calls[c].inputTok = 0 /\ calls[c].outputTok = 0)
                => requests' = requests /\ daily' = daily]_vars

C20_Witness ==
    /\ NaturalEnd(calls[1]) /\ ~crashed
    /\ calls[1].received = <<Line("ping"), Line("md_0")>>
    /\ ~calls[1].logged /\ requests = <<>>

\* C25: a streamed call has a record only once upstream's stream has ended
\* naturally and the caller's stream has been ended with every chunk written
\* to it; no step that delivers a chunk writes to the ledger, the step that
\* writes is the end of the stream, and nothing is written to the caller of
\* a call that has its record.
C25_WriteOnlyAfterStreamEnd ==
    /\ [](\A c \in CallIds :
            (calls[c].stream /\ HasRequestId(requests, calls[c].requestId)) =>
                /\ NaturalEnd(calls[c])
                /\ Len(calls[c].written) = Len(calls[c].received))
    /\ [][\A c \in CallIds :
            /\ (calls[c].pc = "stream" /\ calls'[c].pc = "stream")
                  => requests' = requests /\ daily' = daily
            /\ (calls[c].stream /\ calls'[c].requestId = calls[c].requestId
                   /\ HasRequestId(requests, calls[c].requestId))
                  => calls'[c].written = calls[c].written]_vars
    /\ [][(requests' # requests \/ daily' # daily) =>
            \E c \in CallIds :
                /\ calls[c].pc = "stream" /\ NaturalEnd(calls'[c])
                /\ calls'[c].written = calls[c].written
                /\ Len(calls[c].written) = Len(calls[c].received)]_vars

C25_Witness ==
    /\ NaturalEnd(calls[1]) /\ calls[1].logged
    /\ HasRequestId(requests, calls[1].requestId)
    /\ calls[1].received = <<Line("ms_100_0"), Line("md_50")>>
    /\ Len(calls[1].written) = 2

\* C27: the end of a streamed call whose ledger write fails leaves the process
\* running: the caller's stream is ended and the failure stops no call.
C27_LedgerFailureAtEndRecovered ==
    [][\A c \in CallIds :
        (calls[c].pc = "stream" /\ calls'[c].ended /\ calls'[c].failure = "none")
            => ~crashed']_vars

InFlight(call) == call.pc \in {"fetch", "json", "stream"}

Terminal(call) == call.pc = "done"

\* C26: every received call that is forwarded reaches a terminal state; a call
\* in a terminal state changes no more, is sent no more bytes and gets no
\* further record; a call that was logged or ended its stream naturally has
\* had upstream's response.
C26_EveryCallTerminates ==
    /\ \A c \in CallIds : InFlight(calls[c]) ~> Terminal(calls[c])
    /\ [][\A c \in CallIds :
            (Terminal(calls[c]) /\ ~crashed) =>
                /\ calls'[c] = calls[c]
                /\ HasRequestId(requests', calls[c].requestId)
                      <=> HasRequestId(requests, calls[c].requestId)]_vars
    /\ [](\A c \in CallIds :
            (Terminal(calls[c]) /\ (calls[c].logged \/ NaturalEnd(calls[c])))
                => calls[c].upStatus # 0)

\* the example of the specification: message_start{100, 0}, message_delta{50},
\* message_delta{120} is recorded as input 100, output 120
C9_ExampleRecorded ==
    \A c \in CallIds :
        (calls[c].pc = "done" /\ calls[c].logged
           /\ calls[c].received = <<Line("ms_100_0"), Line("md_50"), Line("md_120")>>) =>
            /\ RowOf(calls[c].requestId).input_tokens = 100
            /\ RowOf(calls[c].requestId).output_tokens = 120

C9_ExampleReached ==
    \E c \in CallIds :
        /\ calls[c].pc = "done" /\ calls[c].logged
        /\ calls[c].received = <<Line("ms_100_0"), Line("md_50"), Line("md_120")>>

====
